---- MODULE Spec2Model ----
(***************************************************************************)
(* Backup coordinator of br/pkg/backup/client.go.                          *)
(*                                                                         *)
(* The module holds several state machines over one set of variables:      *)
(*   SpecClassify  OnBackupResponse, the response classifier               *)
(*   SpecGetTS     Client.GetTS                                            *)
(*   SpecSB        one SendBackup call                                     *)
(*   Spec          one BackupRange call: push-down result, then            *)
(*                 fineGrainedBackup with its 4 workers, its dispatcher    *)
(*                 and its collector, then the manifest Sends              *)
(*   SpecCancel    the same, the stores sending good responses only and    *)
(*                 the context being cancelled at any moment               *)
(*   FairSpec      the same, every stream ending with io.EOF at once,      *)
(*                 under the fairness of the Go scheduler and of select    *)
(*   SpecLeader    the same as FairSpec without fairness, findRegionLeader *)
(*                 running turn by turn against any PD                     *)
(*   SpecRanges    Client.BackupRanges: several BackupRange calls on a     *)
(*                 worker pool, sharing one manifest writer                *)
(*   SpecStorage   Client.SetStorage and CheckBackupStorageIsLocked        *)
(* Each specification drives its own group of variables and leaves the     *)
(* other groups at their idle values.                                      *)
(***************************************************************************)
EXTENDS Integers, Sequences, FiniteSets, Bags, TLC

VARIABLES
    \* ---- OnBackupResponse (classifier) ----
    clResp,        \* the response handed to OnBackupResponse
    clReplies,     \* replies of the lock resolver, one per call
    clDecisions,   \* what each call returned
    clResolves,    \* number of lockResolver.ResolveLocks calls
    \* ---- Client.GetTS ----
    gtPc,          \* "enter", "fetch", "checkGC", "done"
    gtDuration,    \* argument duration (ns)
    gtOverride,    \* argument ts
    gtPdCalls,     \* calls of the PD client's GetTS
    gtFetched,     \* <<physical, logical>> once PD answered, else <<>>
    gtBackupTS,    \* local backupTS
    gtGcChecks,    \* calls of utils.CheckGCSafePoint
    gtErr,         \* "none" while running, "nil" or the error returned
    \* ---- SendBackup ----
    sbPc,          \* "open" (before client.Backup), "recv" (before bcli.Recv), "done"
    sbRetry,       \* loop variable retry
    sbClient,      \* the client variable: 0 is the argument, k the k-th reset's
    sbRecvd,       \* responses received so far
    sbLog,         \* what the call did, in order
    sbResult,      \* "none" while running, "nil" or the error returned
    \* ---- Client.BackupRange and Client.fineGrainedBackup, one input range ----
    brPc,          \* BackupRange: "push", "fine", "emit", "done"
    brErr,         \* "none" while running, "nil" or the error BackupRange returned
    sent,          \* the ranges handed to metaWriter.Send, in order
    tree,          \* rangeTree / results: the set of stored ranges
    ctxCancelled,  \* whether ctx is cancelled
    rangeUnits,    \* calls of progressCallBack(RangeUnit)
    regionUnits,   \* calls of progressCallBack(RegionUnit) by fineGrainedBackup
    puts,          \* calls of rangeTree.Put by fineGrainedBackup
    fgPc,          \* fineGrainedBackup: "check" (loop head), "select", "returned"
    fgErr,         \* "none" while running, "nil" or the error returned
    incomplete,    \* the holes of this iteration
    retry,         \* channel retry: its buffer
    retryClosed,
    respCh,        \* channel respCh: its buffer
    respClosed,
    errCh,         \* channel errCh: its buffer
    maxMs,         \* max.ms
    totalSleep,    \* ms slept so far by the backoffer bo
    respLeft,      \* responses the stores may still send
    failLeft,      \* retryable stream errors that may still happen
    dispatcher,    \* the dispatching goroutine: [pc, i]
    workers,       \* the worker goroutines of this iteration, a bag of their states
    hfLast,        \* what handleFineGrained returned in the step that led here:
                   \* [cause, seen, ms, err], NoReturn after any other step
    hfMax,         \* the largest backoff handleFineGrained returned in this iteration
    \* ---- Client.BackupRanges ----
    rsRanges,      \* argument ranges
    rsConcurrency, \* argument concurrency
    rsJobs,        \* per input range: [pc, tree, n], the state of its BackupRange
    rsSent,        \* the metaWriter.Send calls of all BackupRange calls, in order
    \* ---- Client.SetStorage ----
    stPc,          \* "new", "meta", "lock", "walk", "done"
    stFiles,       \* the paths under the prefix of the external storage
    stStorage,     \* bc.storage: "unset" or "opened"
    stBackend,     \* bc.backend: "unset" or "backend", the argument
    stErr          \* "none" while running, "nil" or the error returned

clVars == <<clResp, clReplies, clDecisions, clResolves>>
gtVars == <<gtPc, gtDuration, gtOverride, gtPdCalls, gtFetched, gtBackupTS,
            gtGcChecks, gtErr>>

sbVars == <<sbPc, sbRetry, sbClient, sbRecvd, sbLog, sbResult>>

cbVars == <<rangeUnits, regionUnits, puts>>
brVars == <<brPc, brErr, sent, tree, ctxCancelled, cbVars>>
chVars == <<retry, retryClosed, respCh, respClosed, errCh>>
envVars == <<respLeft, failLeft>>
hfVars == <<hfLast, hfMax>>
fgVars == <<fgPc, fgErr, incomplete, chVars, maxMs, totalSleep, envVars,
            dispatcher, workers>>

rsVars == <<rsRanges, rsConcurrency, rsJobs, rsSent>>

stVars == <<stPc, stFiles, stStorage, stBackend, stErr>>

vars == <<clVars, gtVars, sbVars, brVars, fgVars, rsVars, stVars>>

\* What the actions of one state machine leave alone.
notCl == <<gtVars, sbVars, brVars, fgVars, hfVars, rsVars, stVars>>
notGt == <<clVars, sbVars, brVars, fgVars, hfVars, rsVars, stVars>>
notSb == <<clVars, gtVars, brVars, fgVars, hfVars, rsVars, stVars>>
notBr == <<clVars, gtVars, sbVars, rsVars, stVars>>
notRs == <<clVars, gtVars, sbVars, brVars, fgVars, hfVars, stVars>>
notSt == <<clVars, gtVars, sbVars, brVars, fgVars, hfVars, rsVars>>

(***************************************************************************)
(* OnBackupResponse                                                        *)
(***************************************************************************)

\* Fields of errorpb.Error that OnBackupResponse ignores (retries).
AllowedRegionErrors ==
    {"EpochNotMatch", "NotLeader", "RegionNotFound", "ServerIsBusy",
     "StaleCommand", "StoreNotMatch", "ReadIndexNotReady", "ProposalInMergingMode"}

\* Some fields of errorpb.Error that are not in the list.
OtherRegionErrors == {"KeyNotInRegion", "RaftEntryTooLarge"}

\* Messages of a backuppb.Error with no Detail.
RetryableStorageMsg == "server closed"
ErrorMsgs == {RetryableStorageMsg, "disk full", ""}

\* utils.MessageIsRetryableStorageError
MessageIsRetryableStorageError(msg) == msg = RetryableStorageMsg

NoError == [detail |-> "none"]

\* resp.Error of a backuppb.BackupResponse: nil, or one Detail variant.
\* A RegionError carries the set of its non-nil fields.
RespErrors ==
    {NoError}
    \cup {[detail |-> "KvError", locked |-> l] : l \in BOOLEAN}
    \cup {[detail |-> "RegionError", fields |-> f] :
            f \in {s \in SUBSET (AllowedRegionErrors \cup OtherRegionErrors) :
                     Cardinality(s) <= 2}}
    \cup {[detail |-> "ClusterIdError"]}
    \cup {[detail |-> "other", msg |-> m] : m \in ErrorMsgs}

\* What lockResolver.ResolveLocks may answer: (msBeforeExpired, err).
LockTTLs == {0, 500, 2000}
ResolverReplies == [ms : LockTTLs, err : BOOLEAN]

Decision(kept, backoffMs, err) == [kept |-> kept, backoffMs |-> backoffMs, err |-> err]

\* Whether OnBackupResponse calls ResolveLocks for this error.
CallsResolveLocks(e) == e.detail = "KvError" /\ e.locked

\* OnBackupResponse with ProposalInMergingMode missing from the ignored errors.
OnBackupResponse_NoMergingMode(e, reply) ==
    IF e.detail = "none" THEN Decision(TRUE, 0, "nil")
    ELSE IF e.detail = "KvError" THEN
        IF e.locked THEN
            IF reply.err THEN Decision(FALSE, 0, "ResolveLocks")
            ELSE IF reply.ms > 0 THEN Decision(FALSE, reply.ms, "nil")
            ELSE Decision(FALSE, 0, "nil")
        ELSE Decision(FALSE, 0, "KVUnknown")
    ELSE IF e.detail = "RegionError" THEN
        IF ~(e.fields \cap (AllowedRegionErrors \ {"ProposalInMergingMode"}) # {})
        THEN Decision(FALSE, 0, "KVUnknown")
        ELSE Decision(FALSE, 1000, "nil")
    ELSE IF e.detail = "ClusterIdError" THEN Decision(FALSE, 0, "KVClusterIDMismatch")
    ELSE IF MessageIsRetryableStorageError(e.msg) THEN Decision(FALSE, 3000, "nil")
    ELSE Decision(FALSE, 0, "KVUnknown")

\* OnBackupResponse resolving locks for every KvError, locked or not.
OnBackupResponse_ResolveAnyKvError(e, reply) ==
    IF e.detail = "none" THEN Decision(TRUE, 0, "nil")
    ELSE IF e.detail = "KvError" THEN
        IF reply.err THEN Decision(FALSE, 0, "ResolveLocks")
        ELSE IF ~e.locked THEN Decision(FALSE, 0, "KVUnknown")
        ELSE IF reply.ms > 0 THEN Decision(FALSE, reply.ms, "nil")
        ELSE Decision(FALSE, 0, "nil")
    ELSE IF e.detail = "RegionError" THEN
        IF ~(e.fields \cap AllowedRegionErrors # {})
        THEN Decision(FALSE, 0, "KVUnknown")
        ELSE Decision(FALSE, 1000, "nil")
    ELSE IF e.detail = "ClusterIdError" THEN Decision(FALSE, 0, "KVClusterIDMismatch")
    ELSE IF MessageIsRetryableStorageError(e.msg) THEN Decision(FALSE, 3000, "nil")
    ELSE Decision(FALSE, 0, "KVUnknown")

\* OnBackupResponse handing back the response whose lock has yet to expire.
OnBackupResponse_KeepsLocked(e, reply) ==
    IF e.detail = "none" THEN Decision(TRUE, 0, "nil")
    ELSE IF e.detail = "KvError" THEN
        IF e.locked THEN
            IF reply.err THEN Decision(FALSE, 0, "ResolveLocks")
            ELSE IF reply.ms > 0 THEN Decision(TRUE, reply.ms, "nil")
            ELSE Decision(FALSE, 0, "nil")
        ELSE Decision(FALSE, 0, "KVUnknown")
    ELSE IF e.detail = "RegionError" THEN
        IF ~(e.fields \cap AllowedRegionErrors # {})
        THEN Decision(FALSE, 0, "KVUnknown")
        ELSE Decision(FALSE, 1000, "nil")
    ELSE IF e.detail = "ClusterIdError" THEN Decision(FALSE, 0, "KVClusterIDMismatch")
    ELSE IF MessageIsRetryableStorageError(e.msg) THEN Decision(FALSE, 3000, "nil")
    ELSE Decision(FALSE, 0, "KVUnknown")

\* The (response kept?, backoffMs, error) returned for resp.Error = e when
\* ResolveLocks, if called, answers reply.
OnBackupResponse(e, reply) ==
    IF e.detail = "none" THEN Decision(TRUE, 0, "nil")
    ELSE IF e.detail = "KvError" THEN
        IF e.locked THEN
            IF reply.err THEN Decision(FALSE, 0, "ResolveLocks")
            ELSE IF reply.ms > 0 THEN Decision(FALSE, reply.ms, "nil")
            ELSE Decision(FALSE, 0, "nil")
        ELSE Decision(FALSE, 0, "KVUnknown")
    ELSE IF e.detail = "RegionError" THEN
        IF ~(e.fields \cap AllowedRegionErrors # {})
        THEN Decision(FALSE, 0, "KVUnknown")
        ELSE Decision(FALSE, 1000, "nil")
    ELSE IF e.detail = "ClusterIdError" THEN Decision(FALSE, 0, "KVClusterIDMismatch")
    ELSE IF MessageIsRetryableStorageError(e.msg) THEN Decision(FALSE, 3000, "nil")
    ELSE Decision(FALSE, 0, "KVUnknown")

\* A response is classified at most this many times.
MaxClassify == 2

\* Before the first call, for a response drawn from resps.
ClStart(resps) ==
    /\ clResp \in resps
    /\ clReplies = <<>>
    /\ clDecisions = <<>>
    /\ clResolves = 0

\* One call OnBackupResponse(storeID, bo, backupTS, lockResolver, resp).
Classify(reply) ==
    /\ Len(clDecisions) < MaxClassify
    /\ clReplies' = Append(clReplies, reply)
    /\ clDecisions' = Append(clDecisions, OnBackupResponse(clResp, reply))
    /\ clResolves' = clResolves + (IF CallsResolveLocks(clResp) THEN 1 ELSE 0)
    /\ UNCHANGED <<clResp, notCl>>

ClNext == \E reply \in ResolverReplies : Classify(reply)

(***************************************************************************)
(* Client.GetTS                                                            *)
(***************************************************************************)

\* oracle: a TS is physical ms shifted by 18 bits plus the logical counter.
LogicalSpan == 2 ^ 18
NsPerMs == 1000 * 1000

\* Go integer division truncates toward zero.
TruncDiv(a, b) == IF a >= 0 THEN a \div b ELSE -((-a) \div b)

\* oracle.ComposeTS: uint64((physical << 18) + logical).  The uint64 is kept
\* as the signed integer of the same bit pattern (no value here reaches 2^63).
ComposeTS(physical, logical) == physical * LogicalSpan + logical

\* oracle.ExtractPhysical: int64(ts >> 18)
ExtractPhysical(ts) == ts \div LogicalSpan

\* a < b on uint64 values held as signed integers of the same bit pattern
Uint64Less(a, b) ==
    IF (a >= 0) = (b >= 0) THEN a < b ELSE a >= 0

\* PhysicalAgo rounding down instead of toward zero.
PhysicalAgo_Floor(ts, duration) == (ExtractPhysical(ts) * NsPerMs - duration) \div NsPerMs

\* oracle.GetPhysical(oracle.GetTimeFromTS(ts).Add(-duration)): the time in
\* ns since the epoch, divided by 1e6.
PhysicalAgo(ts, duration) == TruncDiv(ExtractPhysical(ts) * NsPerMs - duration, NsPerMs)

\* PD GetTS is tried at most this many times by utils.WithRetry.
MaxPDAttempts == 3

\* Inputs of the model.
Durations == {-NsPerMs, -1, 0, 1, NsPerMs, 2 * NsPerMs + 1, 9 * NsPerMs}
Overrides == {0, 1, ComposeTS(3, 1)}
PDPhysicals == {0, 2, 5}
PDLogicals == {0, 1, LogicalSpan - 1}

\* GetTS(ctx, duration, ts) at pc, its arguments drawn from the two sets.
GtStart(pc, durations, overrides) ==
    /\ gtPc = pc
    /\ gtDuration \in durations
    /\ gtOverride \in overrides
    /\ gtPdCalls = 0
    /\ gtFetched = <<>>
    /\ gtBackupTS = 0
    /\ gtGcChecks = 0
    /\ gtErr = "none"

\* GetTSAfterFetch without the case duration < 0.
GetTSAfterFetch_NoNegativeCase(physical, logical) ==
    LET now == ComposeTS(physical, logical)
        ago == ComposeTS(PhysicalAgo(now, gtDuration), logical)
    IN  IF gtDuration # 0 THEN
            IF Uint64Less(now, ago)
            THEN [pc |-> "done", ts |-> 0, err |-> "InvalidArgument"]
            ELSE [pc |-> "checkGC", ts |-> ago, err |-> "none"]
        ELSE [pc |-> "checkGC", ts |-> now, err |-> "none"]

\* Where GetTS goes once PD returned (physical, logical): the switch on duration.
GetTSAfterFetch(physical, logical) ==
    LET now == ComposeTS(physical, logical)
        ago == ComposeTS(PhysicalAgo(now, gtDuration), logical)
    IN  IF gtDuration < 0 THEN [pc |-> "done", ts |-> 0, err |-> "InvalidArgument"]
        ELSE IF gtDuration > 0 THEN
            IF Uint64Less(now, ago)
            THEN [pc |-> "done", ts |-> 0, err |-> "InvalidArgument"]
            ELSE [pc |-> "checkGC", ts |-> ago, err |-> "none"]
        ELSE [pc |-> "checkGC", ts |-> now, err |-> "none"]

\* if ts > 0 { backupTS = ts } else { ... }
GetTSEnter ==
    /\ gtPc = "enter"
    /\ IF gtOverride > 0
       THEN gtPc' = "checkGC" /\ gtBackupTS' = gtOverride
       ELSE gtPc' = "fetch" /\ UNCHANGED gtBackupTS
    /\ UNCHANGED <<gtDuration, gtOverride, gtPdCalls, gtFetched, gtGcChecks, gtErr, notGt>>

\* One attempt of utils.WithRetry: PD answers (physical, logical), or fails.
GetTSFetch(ok, physical, logical) ==
    /\ gtPc = "fetch"
    /\ gtPdCalls < MaxPDAttempts
    /\ gtPdCalls' = gtPdCalls + 1
    /\ IF ok
       THEN LET r == GetTSAfterFetch(physical, logical)
            IN  /\ gtFetched' = <<physical, logical>>
                /\ gtPc' = r.pc
                /\ gtBackupTS' = r.ts
                /\ gtErr' = r.err
       ELSE /\ UNCHANGED <<gtFetched, gtBackupTS>>
            /\ IF gtPdCalls + 1 < MaxPDAttempts
               THEN UNCHANGED <<gtPc, gtErr>>
               ELSE gtPc' = "done" /\ gtErr' = "PD"
    /\ UNCHANGED <<gtDuration, gtOverride, gtGcChecks, notGt>>

\* utils.CheckGCSafePoint(ctx, pd, backupTS)
GetTSCheckGC(ok) ==
    /\ gtPc = "checkGC"
    /\ gtGcChecks' = gtGcChecks + 1
    /\ gtPc' = "done"
    /\ IF ok
       THEN gtErr' = "nil" /\ UNCHANGED gtBackupTS
       ELSE gtErr' = "GC" /\ gtBackupTS' = 0
    /\ UNCHANGED <<gtDuration, gtOverride, gtPdCalls, gtFetched, notGt>>

GtNext ==
    \/ GetTSEnter
    \/ \E ok \in BOOLEAN, p \in PDPhysicals, l \in PDLogicals : GetTSFetch(ok, p, l)
    \/ \E ok \in BOOLEAN : GetTSCheckGC(ok)

(***************************************************************************)
(* SendBackup                                                              *)
(***************************************************************************)

backupRetryTimes == 5
SleepMs == 3000
gRPCCancel == "the client connection is closing"

\* An error of client.Backup or bcli.Recv: its gRPC status code and its message,
\* a sequence of pieces.
StreamErrors ==
    { [code |-> "Unavailable", msg |-> <<"transport is closing">>],
      [code |-> "Canceled",    msg |-> <<"context canceled">>],
      [code |-> "Canceled",    msg |-> <<"grpc: ", gRPCCancel>>],
      [code |-> "Unknown",     msg |-> <<gRPCCancel>>],
      [code |-> "DeadlineExceeded", msg |-> <<"context deadline exceeded">>] }

\* strings.Contains(s.Message(), sub)
Contains(msg, sub) == \E i \in 1..Len(msg) : msg[i] = sub

\* isRetryableError retrying every Canceled error.
isRetryableError_AnyCanceled(err) ==
    err.code = "Unavailable" \/ err.code = "Canceled"

isRetryableError(err) ==
    IF err.code = "Unavailable" THEN TRUE
    ELSE IF err.code = "Canceled" /\ Contains(err.msg, gRPCCancel) THEN TRUE
    ELSE FALSE

\* The stores send at most this many responses to one SendBackup call.
MaxRecv == 2

\* SendBackup at pc, before its first attempt.
SbStart(pc) ==
    /\ sbPc = pc
    /\ sbRetry = 0
    /\ sbClient = 0
    /\ sbRecvd = 0
    /\ sbLog = <<>>
    /\ sbResult = "none"

Ev(name) == [ev |-> name]

\* SbNextAttempt with the loop test retry <= backupRetryTimes.
SbNextAttempt_OneMore(log) ==
    /\ sbRetry' = sbRetry + 1
    /\ sbLog' = log
    /\ IF sbRetry + 1 <= backupRetryTimes
       THEN sbPc' = "open" /\ sbResult' = "none"
       ELSE sbPc' = "done" /\ sbResult' = "nil"

\* The loop falling through with an error once the attempts are used up.
SbNextAttempt_FailsWhenExhausted(log) ==
    /\ sbRetry' = sbRetry + 1
    /\ sbLog' = log
    /\ IF sbRetry + 1 < backupRetryTimes
       THEN sbPc' = "open" /\ sbResult' = "none"
       ELSE sbPc' = "done" /\ sbResult' = "Exhausted"

\* The loop header: retry++ and the test retry < backupRetryTimes; falling
\* out of the loop returns nil.
SbNextAttempt(log) ==
    /\ sbRetry' = sbRetry + 1
    /\ sbLog' = log
    /\ IF sbRetry + 1 < backupRetryTimes
       THEN sbPc' = "open" /\ sbResult' = "none"
       ELSE sbPc' = "done" /\ sbResult' = "nil"

SbReturn(log, result) ==
    /\ sbLog' = log
    /\ sbPc' = "done"
    /\ sbResult' = result
    /\ UNCHANGED sbRetry

\* time.Sleep(3 * time.Second); client, errReset = resetFn(); then continue,
\* or return the reset error.  closeSend: whether bcli.CloseSend() follows.
SbSleepAndReset(log, resetOk, closeSend) ==
    LET l1 == log \o << [ev |-> "sleep", ms |-> SleepMs],
                       [ev |-> "reset", ok |-> resetOk] >>
        l2 == IF closeSend THEN Append(l1, Ev("close")) ELSE l1
    IN  IF resetOk
        THEN sbClient' = sbClient + 1 /\ SbNextAttempt(l2)
        ELSE UNCHANGED sbClient /\ SbReturn(l2, "ResetFailed")

\* bcli, err := client.Backup(ctx, &req) and the handling of err
SendBackupOpen(ok, err, resetOk) ==
    /\ sbPc = "open"
    /\ UNCHANGED <<sbRecvd, notSb>>
    /\ LET log == Append(sbLog, [ev |-> "open", client |-> sbClient])
       IN  IF ok
           THEN /\ sbPc' = "recv"
                /\ sbLog' = log
                /\ UNCHANGED <<sbRetry, sbClient, sbResult>>
           ELSE LET l1 == Append(log, [ev |-> "error", err |-> err])
                IN  IF isRetryableError(err)
                    THEN SbSleepAndReset(l1, resetOk, FALSE)
                    ELSE UNCHANGED sbClient /\ SbReturn(l1, "FailedToConnect")

\* resp, err := bcli.Recv() returned a response, the (sbRecvd + 1)-th of the
\* call; respFn(resp)
SendBackupRecvResp(respFnOk) ==
    /\ sbPc = "recv"
    /\ sbRecvd < MaxRecv
    /\ sbRecvd' = sbRecvd + 1
    /\ UNCHANGED <<sbClient, notSb>>
    /\ LET log == Append(sbLog, [ev |-> "respFn", resp |-> sbRecvd + 1])
       IN  IF respFnOk
           THEN sbLog' = log /\ UNCHANGED <<sbPc, sbRetry, sbResult>>
           ELSE SbReturn(Append(log, Ev("close")), "respFn")

\* io.EOF leaving the receive loop only: the next attempt follows.
SendBackupRecvEOF_NextAttempt ==
    /\ sbPc = "recv"
    /\ UNCHANGED <<sbClient, sbRecvd, notSb>>
    /\ SbNextAttempt(sbLog \o <<Ev("eof"), Ev("close")>>)

\* bcli.Recv() returned io.EOF: CloseSend, break backupLoop
SendBackupRecvEOF ==
    /\ sbPc = "recv"
    /\ UNCHANGED <<sbClient, sbRecvd, notSb>>
    /\ SbReturn(sbLog \o <<Ev("eof"), Ev("close")>>, "nil")

\* bcli.Recv() returned another error
SendBackupRecvErr(err, resetOk) ==
    /\ sbPc = "recv"
    /\ UNCHANGED <<sbRecvd, notSb>>
    /\ LET l1 == Append(sbLog, [ev |-> "error", err |-> err])
       IN  IF isRetryableError(err)
           THEN SbSleepAndReset(l1, resetOk, TRUE)
           ELSE UNCHANGED sbClient /\ SbReturn(Append(l1, Ev("close")), "FailedToConnect")

SbNext ==
    \/ \E ok \in BOOLEAN, err \in StreamErrors, resetOk \in BOOLEAN :
          SendBackupOpen(ok, err, resetOk)
    \/ \E respFnOk \in BOOLEAN : SendBackupRecvResp(respFnOk)
    \/ SendBackupRecvEOF
    \/ \E err \in StreamErrors, resetOk \in BOOLEAN : SendBackupRecvErr(err, resetOk)

(***************************************************************************)
(* The range tree (br/pkg/rtree), keys 0..MaxKey                           *)
(***************************************************************************)

\* Keys are 0..MaxKey; the input range of BackupRange is [0, MaxKey).
MaxKey == 3

Rg(s, e) == [s |-> s, e |-> e]
NoRange == Rg(0, 0)
Ranges == {r \in [s : 0..MaxKey, e : 0..MaxKey] : r.s < r.e}

Overlaps(a, b) == a.s < b.e /\ b.s < a.e

\* What is left of stored range r once rg is put over it.
Trim(r, rg) ==
    (IF r.s < rg.s THEN {Rg(r.s, rg.s)} ELSE {})
    \cup (IF rg.e < r.e THEN {Rg(rg.e, r.e)} ELSE {})

\* rangeTree.Put(start, end, files): the later write takes the overlapping part.
Put(t, rg) ==
    UNION {IF Overlaps(r, rg) THEN Trim(r, rg) ELSE {r} : r \in t} \cup {rg}

Covered(t, k) == \E r \in t : r.s <= k /\ k < r.e

\* The maximal runs of uncovered keys inside [lo, hi).
Gaps(t, lo, hi) ==
    {g \in Ranges :
        /\ lo <= g.s /\ g.e <= hi
        /\ \A k \in g.s..(g.e - 1) : ~Covered(t, k)
        /\ g.s = lo \/ Covered(t, g.s - 1)
        /\ g.e = hi \/ Covered(t, g.e)}

\* The ranges of a set of disjoint ranges, by ascending start key.
RECURSIVE Ascending(_)
Ascending(S) ==
    IF S = {} THEN <<>>
    ELSE LET first == CHOOSE r \in S : \A q \in S : r.s <= q.s
         IN  <<first>> \o Ascending(S \ {first})

\* rangeTree.GetIncompleteRange(startKey, endKey)
GetIncompleteRange(t, lo, hi) == Ascending(Gaps(t, lo, hi))

\* rangeTree.Ascend: the stored ranges in key order
Ascend(t) == Ascending(t)

\* The trees pushBackup may return: disjoint ranges inside [0, MaxKey).
PushTrees == {t \in SUBSET Ranges : \A a, b \in t : a = b \/ ~Overlaps(a, b)}

(***************************************************************************)
(* Client.BackupRange and Client.fineGrainedBackup                         *)
(***************************************************************************)

backupFineGrainedMaxBackoff == 80000
NumWorkers == 4
ChanCap == 4

\* During one BackupRange the stores send at most MaxResp responses without
\* error to the fine-grained requests, and their streams fail with a
\* retryable error at most MaxStreamFail times.
MaxResp == 2
MaxStreamFail == 1

\* A worker goroutine: its place, the hole rg it handles, and the locals of
\* handleFineGrained and SendBackup (retry, backoffMill, hasProgress, and the
\* response it is sending to respCh); seen is the set of the backoffs
\* OnBackupResponse returned to the callback during this handleFineGrained,
\* streams the number of the streams it has opened and not closed. Of
\* findRegionLeader it holds the loop variable i, the numbers of its GetRegion
\* calls and of those that failed, and the store of the leader it returned.
Worker(pc, rg, n, backoffMill, hasProgress, held) ==
    [pc |-> pc, rg |-> rg, retry |-> n, backoffMill |-> backoffMill,
     hasProgress |-> hasProgress, held |-> held, seen |-> {}, streams |-> 0,
     i |-> 0, calls |-> 0, fails |-> 0, leader |-> 0]
\* A backuppb.BackupResponse: its range and its Error.
Resp(rg, error) == [s |-> rg.s, e |-> rg.e, error |-> error]
NoResp == Resp(NoRange, NoError)

FreshWorker == Worker("range", NoRange, 0, 0, FALSE, NoResp)
ExitedWorker == Worker("exit", NoRange, 0, 0, FALSE, NoResp)

Bag(elem, n) == IF n = 0 THEN EmptyBag ELSE [x \in {elem} |-> n]

\* What handleFineGrained returned: (ms, err), with what made it return and
\* the backoffs its callback has seen.
Returned(cause, seen, ms, err) == [cause |-> cause, seen |-> seen, ms |-> ms, err |-> err]
NoReturn == Returned("none", {}, 0, "nil")

\* BackupRange at pc, the stores to send at most resp responses without error
\* and fail at most fail times; nothing of the fine-grained phase exists yet.
BrStart(pc, resp, fail) ==
    /\ brPc = pc
    /\ brErr = "none"
    /\ sent = <<>>
    /\ tree = {}
    /\ ctxCancelled = FALSE
    /\ rangeUnits = 0
    /\ regionUnits = 0
    /\ puts = 0
    /\ fgPc = "idle"
    /\ fgErr = "none"
    /\ incomplete = <<>>
    /\ retry = <<>>
    /\ retryClosed = FALSE
    /\ respCh = <<>>
    /\ respClosed = FALSE
    /\ errCh = <<>>
    /\ maxMs = 0
    /\ totalSleep = 0
    /\ respLeft = resp
    /\ failLeft = fail
    /\ dispatcher = [pc |-> "idle", i |-> 0]
    /\ workers = EmptyBag
    /\ hfLast = NoReturn
    /\ hfMax = 0

\* The context of BackupRange is cancelled.
Cancel ==
    /\ brPc \in {"push", "fine"}
    /\ ~ctxCancelled
    /\ ctxCancelled' = TRUE
    /\ hfLast' = NoReturn
    /\ UNCHANGED <<brPc, brErr, sent, tree, cbVars, fgVars, hfMax, notBr>>

\* GetAllTiKVStoresWithRetry and pushBackup: an error, or the tree of the
\* ranges the stores backed up; then fineGrainedBackup is entered.
BackupRangePush(ok, t) ==
    /\ brPc = "push"
    /\ IF ok /\ ~ctxCancelled
       THEN /\ tree' = t
            /\ brPc' = "fine"
            /\ fgPc' = "check"
            /\ UNCHANGED brErr
       ELSE /\ brPc' = "done"
            /\ brErr' = "PushDown"
            /\ UNCHANGED <<tree, fgPc>>
    /\ UNCHANGED <<sent, ctxCancelled, cbVars, fgErr, incomplete, chVars, maxMs, totalSleep,
                   envVars, dispatcher, workers, hfMax, notBr>>
    /\ hfLast' = NoReturn

\* BackupRange calling progressCallBack(RangeUnit) whatever fineGrainedBackup
\* returned.
FgReturn_RangeUnitAlways(err) ==
    /\ fgPc' = "returned"
    /\ fgErr' = err
    /\ rangeUnits' = rangeUnits + 1
    /\ IF err = "nil"
       THEN brPc' = "emit" /\ UNCHANGED brErr
       ELSE brPc' = "done" /\ brErr' = err

\* fineGrainedBackup returns err to BackupRange, which returns it, or goes on
\* to progressCallBack(RangeUnit) and results.Ascend.
FgReturn(err) ==
    /\ fgPc' = "returned"
    /\ fgErr' = err
    /\ IF err = "nil"
       THEN brPc' = "emit" /\ rangeUnits' = rangeUnits + 1 /\ UNCHANGED brErr
       ELSE brPc' = "done" /\ brErr' = err /\ UNCHANGED rangeUnits

\* The loop head returning nil also once a backoff has been slept.
FgCheck_ReturnsAfterBackoff ==
    /\ fgPc = "check"
    /\ LET holes == GetIncompleteRange(tree, 0, MaxKey)
       IN  IF Len(holes) = 0 \/ totalSleep > 0
           THEN /\ FgReturn("nil")
                /\ UNCHANGED <<incomplete, chVars, maxMs, dispatcher, workers, hfMax>>
           ELSE /\ fgPc' = "select"
                /\ incomplete' = holes
                /\ retry' = <<>> /\ retryClosed' = FALSE
                /\ respCh' = <<>> /\ respClosed' = FALSE
                /\ errCh' = <<>>
                /\ maxMs' = 0
                /\ workers' = Bag(FreshWorker, NumWorkers)
                /\ dispatcher' = [pc |-> "send", i |-> 1]
                /\ hfMax' = 0
                /\ UNCHANGED <<fgErr, brPc, brErr, rangeUnits>>
    /\ hfLast' = NoReturn
    /\ UNCHANGED <<sent, tree, ctxCancelled, regionUnits, puts, totalSleep, envVars, notBr>>

\* Step 1 and 2 of the loop: return nil if no range is incomplete, else make
\* the channels and start the 4 workers and the dispatcher.
FgCheck ==
    /\ fgPc = "check"
    /\ LET holes == GetIncompleteRange(tree, 0, MaxKey)
       IN  IF Len(holes) = 0
           THEN /\ FgReturn("nil")
                /\ UNCHANGED <<incomplete, chVars, maxMs, dispatcher, workers, hfMax>>
           ELSE /\ fgPc' = "select"
                /\ incomplete' = holes
                /\ retry' = <<>> /\ retryClosed' = FALSE
                /\ respCh' = <<>> /\ respClosed' = FALSE
                /\ errCh' = <<>>
                /\ maxMs' = 0
                /\ workers' = Bag(FreshWorker, NumWorkers)
                /\ dispatcher' = [pc |-> "send", i |-> 1]
                /\ hfMax' = 0
                /\ UNCHANGED <<fgErr, brPc, brErr, rangeUnits>>
    /\ hfLast' = NoReturn
    /\ UNCHANGED <<sent, tree, ctxCancelled, regionUnits, puts, totalSleep, envVars, notBr>>

\* case err := <-errCh: return errors.Trace(err)
FgSelectErr ==
    /\ fgPc = "select"
    /\ errCh # <<>>
    /\ FgReturn(Head(errCh))
    /\ errCh' = Tail(errCh)
    /\ UNCHANGED <<sent, tree, ctxCancelled, regionUnits, puts, incomplete, retry, retryClosed, respCh,
                   respClosed, maxMs, totalSleep, envVars, dispatcher, workers, hfMax, notBr>>
    /\ hfLast' = NoReturn

\* case resp, ok := <-respCh with ok: rangeTree.Put and progressCallBack
FgSelectResp ==
    /\ fgPc = "select"
    /\ respCh # <<>>
    /\ respCh' = Tail(respCh)
    /\ IF Head(respCh).error # NoError
       THEN FgReturn("panic") /\ UNCHANGED <<tree, regionUnits, puts>>
       ELSE /\ tree' = Put(tree, Rg(Head(respCh).s, Head(respCh).e))
            /\ puts' = puts + 1
            /\ regionUnits' = regionUnits + 1
            /\ UNCHANGED <<brPc, brErr, fgPc, fgErr, rangeUnits>>
    /\ UNCHANGED <<sent, ctxCancelled, incomplete, retry, retryClosed, respClosed,
                   errCh, maxMs, totalSleep, envVars, dispatcher, workers, hfMax, notBr>>
    /\ hfLast' = NoReturn

\* A backoffer refusing the sleep that would take it over its budget.
Backoff_RefusesExcess(ms) ==
    IF ctxCancelled THEN [err |-> "Canceled", total |-> totalSleep]
    ELSE IF totalSleep + ms > backupFineGrainedMaxBackoff
         THEN [err |-> "BackoffTimeout", total |-> totalSleep]
         ELSE [err |-> "nil", total |-> totalSleep + ms]

\* A backoffer without budget.
Backoff_NoBudget(ms) ==
    IF ctxCancelled THEN [err |-> "Canceled", total |-> totalSleep]
    ELSE [err |-> "nil", total |-> totalSleep]

\* bo.BackoffWithMaxSleepTxnLockFast(ms, err): an error once the context is
\* done or the budget is used up, else the sleep.
Backoff(ms) ==
    IF ctxCancelled THEN [err |-> "Canceled", total |-> totalSleep]
    ELSE IF totalSleep >= backupFineGrainedMaxBackoff
         THEN [err |-> "BackoffTimeout", total |-> totalSleep]
         ELSE [err |-> "nil", total |-> totalSleep + ms]

\* case resp, ok := <-respCh with !ok: break selectLoop; then step 3, the
\* backoff, and the next iteration.
FgSelectClosed ==
    /\ fgPc = "select"
    /\ respCh = <<>> /\ respClosed
    /\ IF maxMs # 0
       THEN LET b == Backoff(maxMs)
            IN  /\ totalSleep' = b.total
                /\ IF b.err # "nil"
                   THEN FgReturn(b.err)
                   ELSE fgPc' = "check" /\ UNCHANGED <<fgErr, brPc, brErr, rangeUnits>>
       ELSE fgPc' = "check" /\ UNCHANGED <<fgErr, brPc, brErr, rangeUnits, totalSleep>>
    /\ UNCHANGED <<sent, tree, ctxCancelled, regionUnits, puts, incomplete, chVars, maxMs, envVars,
                   dispatcher, workers, hfMax, notBr>>
    /\ hfLast' = NoReturn

\* The dispatcher: retry <- rg for each hole, then close(retry).
DispatchSend ==
    /\ dispatcher.pc = "send"
    /\ Len(retry) < ChanCap
    /\ retry' = Append(retry, incomplete[dispatcher.i])
    /\ IF dispatcher.i < Len(incomplete)
       THEN dispatcher' = [pc |-> "send", i |-> dispatcher.i + 1] /\ UNCHANGED retryClosed
       ELSE dispatcher' = [pc |-> "wait", i |-> 0] /\ retryClosed' = TRUE
    /\ UNCHANGED <<brVars, fgPc, fgErr, incomplete, respCh, respClosed, errCh, maxMs,
                   totalSleep, envVars, workers, hfMax, notBr>>
    /\ hfLast' = NoReturn

\* The dispatcher closing respCh without wg.Wait().
DispatchWait_ClosesEarly ==
    /\ dispatcher.pc = "wait"
    /\ respClosed' = TRUE
    /\ dispatcher' = [pc |-> "done", i |-> 0]
    /\ UNCHANGED <<brVars, fgPc, fgErr, incomplete, retry, retryClosed, respCh, errCh,
                   maxMs, totalSleep, envVars, workers, hfMax, notBr>>
    /\ hfLast' = NoReturn

\* The dispatcher: wg.Wait() returns once every worker is done; close(respCh).
DispatchWait ==
    /\ dispatcher.pc = "wait"
    /\ \A w \in BagToSet(workers) : w.pc = "exit"
    /\ respClosed' = TRUE
    /\ dispatcher' = [pc |-> "done", i |-> 0]
    /\ UNCHANGED <<brVars, fgPc, fgErr, incomplete, retry, retryClosed, respCh, errCh,
                   maxMs, totalSleep, envVars, workers, hfMax, notBr>>
    /\ hfLast' = NoReturn

(***************************************************************************)
(* The workers of fineGrainedBackup: handleFineGrained and SendBackup      *)
(***************************************************************************)

\* The errors of the responses to the fine-grained requests: none, a lock
\* (the resolver answering 0 or 10 s, or failing), a cluster id mismatch.
FgRespErrors ==
    { NoError,
      [detail |-> "KvError", locked |-> TRUE],
      [detail |-> "ClusterIdError"] }
FgReplies(e) ==
    IF CallsResolveLocks(e)
    THEN {[ms |-> 0, err |-> FALSE], [ms |-> 10000, err |-> FALSE], [ms |-> 0, err |-> TRUE]}
    ELSE {[ms |-> 0, err |-> FALSE]}

\* The stream errors of the fine-grained requests: one retryable, one not.
FgStreamErrors ==
    { [code |-> "Unavailable", msg |-> <<"transport is closing">>],
      [code |-> "Canceled",    msg |-> <<"context canceled">>] }

\* The sub-ranges a store answers a request for rg with: the part of rg in
\* the region of its start key.
RespRanges(rg) == {Rg(rg.s, m) : m \in (rg.s + 1)..rg.e}

\* What GetBackupClient and ResetBackupClient return.
ClientResults == {"ok", "FailedToConnect", "other"}

\* Worker w becomes w2.
Move(w, w2) == workers' = (workers (-) SetToBag({w})) (+) SetToBag({w2})

\* A receive loop that leaves its stream as it is.
Closed_Never(w) == w

\* _ = bcli.CloseSend() on every way out of the receive loop of SendBackup;
\* the ways out of client.Backup have no stream and do not call it.
Closed(w) ==
    IF w.pc \in {"recv", "forward"} THEN [w EXCEPT !.streams = w.streams - 1] ELSE w

\* The worker w2 outside SendBackup, with the streams w has left.
Outside(w, w2) == [w2 EXCEPT !.streams = Closed(w).streams]

\* A worker about to raise max.ms to the backoffMs it holds.
UpdatingWorker(backoffMs) == [FreshWorker EXCEPT !.pc = "update", !.backoffMill = backoffMs]

\* handleFineGrained returned (backoffMs, nil): the worker goes to raise
\* max.ms if backoffMs != 0, and else takes the next hole.
WorkerReturn(w, cause, backoffMs) ==
    /\ Move(w, Outside(w, IF backoffMs # 0 THEN UpdatingWorker(backoffMs) ELSE FreshWorker))
    /\ hfLast' = Returned(cause, w.seen, backoffMs, "nil")
    /\ hfMax' = IF hfMax < backoffMs THEN backoffMs ELSE hfMax
    /\ UNCHANGED <<errCh, maxMs>>

\* handleFineGrained returned an error: errCh <- err; return
WorkerFail(w, err) ==
    /\ Len(errCh) < ChanCap
    /\ errCh' = Append(errCh, err)
    /\ Move(w, Outside(w, ExitedWorker))
    /\ hfLast' = Returned(err, w.seen, 0, err)
    /\ UNCHANGED <<maxMs, hfMax>>

\* The worker goes on inside handleFineGrained.
WorkerStep(w, w2) ==
    /\ Move(w, w2)
    /\ hfLast' = NoReturn
    /\ UNCHANGED <<errCh, maxMs, hfMax>>

\* handleFineGrained without the 10 s for no progress.
SendBackupNil_NoDebounce(w) == WorkerReturn(w, "SendBackupNil", w.backoffMill)

\* The 10 s put in place of every backoff of 0.
SendBackupNil_DebouncesZero(w) ==
    WorkerReturn(w, "SendBackupNil", IF w.backoffMill = 0 THEN 10000 ELSE w.backoffMill)

\* SendBackup returned nil: 10 s if there was no progress.
SendBackupNil(w) ==
    WorkerReturn(w, "SendBackupNil", IF ~w.hasProgress THEN 10000 ELSE w.backoffMill)

\* handleFineGrained returning every error, ErrFailedToConnect too.
SendBackupErr_ReturnsAll(w, class) == WorkerFail(w, class)

\* SendBackup (or GetBackupClient) returned an error of this class.
SendBackupErr(w, class) ==
    IF class = "FailedToConnect"
    THEN WorkerReturn(w, "FailedToConnect", 20000)
    ELSE WorkerFail(w, class)

\* A retryable stream error in SendBackup: sleep, resetFn, next attempt.
StreamRetry(w, reset) ==
    IF reset = "ok"
    THEN IF w.retry + 1 < backupRetryTimes
         THEN WorkerStep(w, [Closed(w) EXCEPT !.pc = "open", !.retry = w.retry + 1])
         ELSE SendBackupNil(w)
    ELSE SendBackupErr(w, IF reset = "other" THEN "ResetFailed" ELSE reset)

\* The stream error err of client.Backup or bcli.Recv.
StreamError(w, err, reset) ==
    IF isRetryableError(err)
    THEN /\ failLeft > 0
         /\ failLeft' = failLeft - 1
         /\ StreamRetry(w, reset)
    ELSE /\ UNCHANGED failLeft
         /\ SendBackupErr(w, "FailedToConnect")

\* for rg := range retry: the end once retry is closed and empty, or the next
\* hole and the head of handleFineGrained for it: findRegionLeader (the
\* leader, or ErrBackupNoLeader after 5 attempts) and GetBackupClient.
WorkerRange(w, found, res) ==
    /\ w.pc = "range"
    /\ IF retry # <<>>
       THEN LET h == [Outside(w, FreshWorker) EXCEPT !.pc = "open", !.rg = Head(retry)]
            IN  /\ retry' = Tail(retry)
                /\ IF ~(found /\ ~ctxCancelled) THEN WorkerFail(w, "BackupNoLeader")
                   ELSE IF res = "ok" THEN WorkerStep(w, h)
                   ELSE SendBackupErr(w, IF res = "other" THEN "ConnectStore" ELSE res)
       ELSE /\ retryClosed
            /\ WorkerStep(w, Outside(w, ExitedWorker))
            /\ UNCHANGED retry
    /\ UNCHANGED <<brVars, fgPc, fgErr, incomplete, retryClosed, respCh, respClosed,
                   totalSleep, envVars, dispatcher, notBr>>

\* for rg := range retry, with findRegionLeader still to run for the hole.
WorkerTake(w) ==
    /\ w.pc = "range"
    /\ IF retry # <<>>
       THEN /\ retry' = Tail(retry)
            /\ WorkerStep(w, [Outside(w, FreshWorker) EXCEPT !.pc = "leader", !.rg = Head(retry)])
       ELSE /\ retryClosed
            /\ WorkerStep(w, Outside(w, ExitedWorker))
            /\ UNCHANGED retry
    /\ UNCHANGED <<brVars, fgPc, fgErr, incomplete, retryClosed, respCh, respClosed,
                   totalSleep, envVars, dispatcher, notBr>>

\* The attempts of findRegionLeader.
FindLeaderAttempts == 5

\* What GetRegion answers: an error, no region, a region without leader or
\* one whose leader is on store 1 or 2.
PDReplies ==
    {[kind |-> "error", leader |-> 0], [kind |-> "nil", leader |-> 0]}
        \cup {[kind |-> "region", leader |-> l] : l \in 0..2}

\* A region counting as found whether it has a leader or not.
LookupFailed_IgnoresLeader(reply) == reply.kind # "region"

\* err != nil || region == nil, or region.Leader == nil
LookupFailed(reply) == reply.kind # "region" \/ reply.leader = 0

\* One turn of the loop of findRegionLeader: GetRegion, then the return of the
\* leader, the next turn, or ErrBackupNoLeader after the last one, which
\* handleFineGrained returns with backoff 0 and the worker sends to errCh.
WorkerGetRegion(w, reply) ==
    /\ w.pc = "leader"
    /\ w.i < FindLeaderAttempts
    /\ IF LookupFailed(reply)
       THEN IF w.i + 1 < FindLeaderAttempts
            THEN WorkerStep(w, [w EXCEPT !.i = w.i + 1, !.calls = w.calls + 1,
                                         !.fails = w.fails + 1])
            ELSE /\ Len(errCh) < ChanCap
                 /\ errCh' = Append(errCh, "BackupNoLeader")
                 /\ Move(w, [ExitedWorker EXCEPT !.i = w.i + 1, !.calls = w.calls + 1,
                                                 !.fails = w.fails + 1])
                 /\ hfLast' = Returned("BackupNoLeader", w.seen, 0, "BackupNoLeader")
                 /\ UNCHANGED <<maxMs, hfMax>>
       ELSE WorkerStep(w, [w EXCEPT !.pc = "open", !.calls = w.calls + 1,
                                    !.leader = reply.leader])
    /\ UNCHANGED <<brVars, fgPc, fgErr, incomplete, retry, retryClosed, respCh, respClosed,
                   totalSleep, envVars, dispatcher, notBr>>

\* max.mu.Lock(); if max.ms < backoffMs { max.ms = backoffMs }; max.mu.Unlock()
\* and the worker takes the next hole.
WorkerUpdateMax(w) ==
    /\ w.pc = "update"
    /\ maxMs' = IF maxMs < w.backoffMill THEN w.backoffMill ELSE maxMs
    /\ Move(w, Outside(w, FreshWorker))
    /\ hfLast' = NoReturn
    /\ UNCHANGED <<brVars, fgPc, fgErr, incomplete, chVars, totalSleep, envVars,
                   dispatcher, hfMax, notBr>>

\* SendBackup: client.Backup(ctx, &req)
WorkerOpen(w, ok, err, reset) ==
    /\ w.pc = "open"
    /\ IF ok /\ ~ctxCancelled
       THEN /\ WorkerStep(w, [w EXCEPT !.pc = "recv", !.streams = w.streams + 1])
            /\ UNCHANGED failLeft
       ELSE StreamError(w, err, reset)
    /\ UNCHANGED <<brVars, fgPc, fgErr, incomplete, retry, retryClosed, respCh,
                   respClosed, totalSleep, respLeft, dispatcher, notBr>>

\* SendBackup: bcli.Recv() returned a response, handed to respFn, which
\* classifies it and, if it is kept, sends it to respCh.
WorkerRecvResp(w, rg, e, reply) ==
    /\ w.pc = "recv"
    /\ ~ctxCancelled
    /\ e = NoError => respLeft > 0
    /\ respLeft' = IF e = NoError THEN respLeft - 1 ELSE respLeft
    /\ LET d == OnBackupResponse(e, reply)
           ms == IF w.backoffMill < d.backoffMs THEN d.backoffMs ELSE w.backoffMill
       IN  IF d.err # "nil"
           THEN SendBackupErr(w, d.err)
           ELSE IF d.kept
                THEN WorkerStep(w, [w EXCEPT !.pc = "forward", !.backoffMill = ms,
                                             !.held = Resp(rg, e),
                                             !.seen = w.seen \cup {d.backoffMs}])
                ELSE WorkerStep(w, [w EXCEPT !.backoffMill = ms, !.hasProgress = TRUE,
                                             !.seen = w.seen \cup {d.backoffMs}])
    /\ UNCHANGED <<brVars, fgPc, fgErr, incomplete, retry, retryClosed, respCh,
                   respClosed, totalSleep, failLeft, dispatcher, notBr>>

\* A callback putting its response into the range tree itself.
WorkerForward_PutsTree(w) ==
    /\ w.pc = "forward"
    /\ tree' = Put(tree, Rg(w.held.s, w.held.e))
    /\ puts' = puts + 1
    /\ WorkerStep(w, [w EXCEPT !.pc = "recv", !.hasProgress = TRUE, !.held = NoResp])
    /\ UNCHANGED <<brPc, brErr, sent, ctxCancelled, rangeUnits, regionUnits, fgPc, fgErr,
                   incomplete, retry, retryClosed, respCh, respClosed,
                   totalSleep, envVars, dispatcher, notBr>>

\* respFn: respCh <- response; hasProgress = true
WorkerForward(w) ==
    /\ w.pc = "forward"
    /\ Len(respCh) < ChanCap
    /\ respCh' = Append(respCh, w.held)
    /\ WorkerStep(w, [w EXCEPT !.pc = "recv", !.hasProgress = TRUE, !.held = NoResp])
    /\ UNCHANGED <<brVars, fgPc, fgErr, incomplete, retry, retryClosed, respClosed,
                   totalSleep, envVars, dispatcher, notBr>>

\* SendBackup: bcli.Recv() returned io.EOF
WorkerRecvEOF(w) ==
    /\ w.pc = "recv"
    /\ SendBackupNil(w)
    /\ UNCHANGED <<brVars, fgPc, fgErr, incomplete, retry, retryClosed, respCh,
                   respClosed, totalSleep, envVars, dispatcher, notBr>>

\* SendBackup: bcli.Recv() returned another error
WorkerRecvErr(w, err, reset) ==
    /\ w.pc = "recv"
    /\ StreamError(w, err, reset)
    /\ UNCHANGED <<brVars, fgPc, fgErr, incomplete, retry, retryClosed, respCh,
                   respClosed, totalSleep, respLeft, dispatcher, notBr>>

\* results.Ascend: metaWriter.Send for the next stored range, in key order;
\* the first Send error ends BackupRange.
BackupRangeSend(ok) ==
    /\ brPc = "emit"
    /\ Len(sent) < Len(Ascend(tree))
    /\ sent' = Append(sent, Ascend(tree)[Len(sent) + 1])
    /\ IF ~ok
       THEN brPc' = "done" /\ brErr' = "Send"
       ELSE IF Len(sent) + 1 = Len(Ascend(tree))
            THEN brPc' = "done" /\ brErr' = "nil"
            ELSE UNCHANGED <<brPc, brErr>>
    /\ hfLast' = NoReturn
    /\ UNCHANGED <<tree, ctxCancelled, cbVars, fgVars, hfMax, notBr>>

FgNext ==
    \/ \E ok \in BOOLEAN, t \in PushTrees : BackupRangePush(ok, t)
    \/ FgCheck
    \/ FgSelectErr
    \/ FgSelectResp
    \/ FgSelectClosed
    \/ DispatchSend
    \/ DispatchWait
    \/ \E w \in BagToSet(workers), found \in BOOLEAN, res \in ClientResults :
          WorkerRange(w, found, res)
    \/ \E w \in BagToSet(workers) : WorkerUpdateMax(w)
    \/ \E w \in BagToSet(workers), ok \in BOOLEAN, err \in FgStreamErrors,
          reset \in ClientResults : WorkerOpen(w, ok, err, reset)
    \/ \E w \in BagToSet(workers) :
          \E rg \in RespRanges(w.rg), e \in FgRespErrors :
             \E reply \in FgReplies(e) : WorkerRecvResp(w, rg, e, reply)
    \/ \E w \in BagToSet(workers) : WorkerForward(w)
    \/ \E w \in BagToSet(workers) : WorkerRecvEOF(w)
    \/ \E w \in BagToSet(workers), err \in FgStreamErrors, reset \in ClientResults :
          WorkerRecvErr(w, err, reset)
    \/ \E ok \in BOOLEAN : BackupRangeSend(ok)

(***************************************************************************)
(* Client.BackupRanges                                                     *)
(***************************************************************************)

MaxRanges == 2
MaxConcurrency == 2

\* The lists of input ranges: pairwise disjoint, in any order.
RangeLists ==
    {l \in UNION {[1..n -> Ranges] : n \in 1..MaxRanges} :
        \A i, j \in 1..Len(l) : i = j \/ ~Overlaps(l[i], l[j])}

\* The trees fineGrainedBackup leaves when it returns nil for the range rg:
\* disjoint ranges inside rg, without gap.
CompleteTrees(rg) ==
    {t \in SUBSET {r \in Ranges : rg.s <= r.s /\ r.e <= rg.e} :
        /\ \A a, b \in t : a = b \/ ~Overlaps(a, b)
        /\ Gaps(t, rg.s, rg.e) = {}}

\* BackupRanges called with one of the lists and one of the concurrencies.
RsStart(lists, concurrencies) ==
    /\ rsRanges \in lists
    /\ rsConcurrency \in concurrencies
    /\ rsJobs = [i \in 1..Len(rsRanges) |-> [pc |-> "queued", tree |-> {}, n |-> 0]]
    /\ rsSent = <<>>

RsBusy == {i \in 1..Len(rsRanges) : rsJobs[i].pc \in {"running", "emit"}}

\* workerPool.ApplyOnErrorGroup: the loop over ranges hands the next range to
\* a free worker of the pool, which calls BackupRange for it.
RsApply(i) ==
    /\ rsJobs[i].pc = "queued"
    /\ \A j \in 1..(i - 1) : rsJobs[j].pc # "queued"
    /\ Cardinality(RsBusy) < rsConcurrency
    /\ rsJobs' = [rsJobs EXCEPT ![i].pc = "running"]
    /\ UNCHANGED <<rsRanges, rsConcurrency, rsSent, notRs>>

\* BackupRange of range i up to the return of fineGrainedBackup: an error, or
\* the tree of the range.
RsBackupRange(i, ok, t) ==
    /\ rsJobs[i].pc = "running"
    /\ rsJobs' = [rsJobs EXCEPT ![i] = IF ok THEN [pc |-> "emit", tree |-> t, n |-> 0]
                                        ELSE [pc |-> "done", tree |-> {}, n |-> 0]]
    /\ UNCHANGED <<rsRanges, rsConcurrency, rsSent, notRs>>

\* results.Ascend of BackupRange i sending its first range: the other order.
RsSend_Descending(i, ok) ==
    /\ rsJobs[i].pc = "emit"
    /\ LET all == Ascend(rsJobs[i].tree)
           n == rsJobs[i].n + 1
       IN  /\ rsSent' = Append(rsSent, [job |-> i, rg |-> all[Len(all) + 1 - n]])
           /\ rsJobs' = [rsJobs EXCEPT ![i].n = n,
                                       ![i].pc = IF ok /\ n < Len(all) THEN "emit" ELSE "done"]
    /\ UNCHANGED <<rsRanges, rsConcurrency, notRs>>

\* results.Ascend of BackupRange i: metaWriter.Send for its next stored range,
\* in key order; a Send error ends the call.
RsSend(i, ok) ==
    /\ rsJobs[i].pc = "emit"
    /\ LET all == Ascend(rsJobs[i].tree)
           n == rsJobs[i].n + 1
       IN  /\ rsSent' = Append(rsSent, [job |-> i, rg |-> all[n]])
           /\ rsJobs' = [rsJobs EXCEPT ![i].n = n,
                                       ![i].pc = IF ok /\ n < Len(all) THEN "emit" ELSE "done"]
    /\ UNCHANGED <<rsRanges, rsConcurrency, notRs>>

RsNext ==
    \/ \E i \in 1..Len(rsRanges) : RsApply(i)
    \/ \E i \in 1..Len(rsRanges), ok \in BOOLEAN :
          \E t \in CompleteTrees(rsRanges[i]) : RsBackupRange(i, ok, t)
    \/ \E i \in 1..Len(rsRanges), ok \in BOOLEAN : RsSend(i, ok)

(***************************************************************************)
(* Client.SetStorage                                                       *)
(***************************************************************************)

\* A path is the sequence of its pieces; the last piece of "a.sst" is ".sst".
MetaFile == <<"backupmeta">>
LockFile == <<"backup", ".lock">>
Paths ==
    { MetaFile, LockFile, <<"1_2_3", ".sst">>, <<"dir/4_5_6", ".sst">>,
      <<"a", ".sst", ".tmp">>, <<"backupmeta", ".bak">> }

\* strings.HasSuffix(path, suffix), the suffix being one piece
HasSuffix(path, suffix) == Len(path) > 0 /\ path[Len(path)] = suffix

\* storage.FileExists(ctx, name)
FileExists(files, name) == name \in files

\* SetStorage(ctx, backend, opts) at pc, over a storage holding one of the sets
\* of paths.
StStart(pc, fileSets) ==
    /\ stPc = pc
    /\ stFiles \in fileSets
    /\ stStorage = "unset"
    /\ stBackend = "unset"
    /\ stErr = "none"

\* What the walk returns without the test of the suffix: any file refuses.
WalkResult_AnyFile(files, ok, early) ==
    IF (ok \/ early) /\ files # {}
    THEN "InvalidArgument"
    ELSE IF ~ok THEN "WalkDir" ELSE "nil"

\* s.WalkDir with the callback of CheckBackupStorageIsLocked: the callback's
\* error for the first path ending in .sst, which ends the walk; else the
\* error of the walk itself (which may come before, or early = after, the
\* walk has met such a path), else nil.
WalkResult(files, ok, early) ==
    IF (ok \/ early) /\ \E f \in files : HasSuffix(f, ".sst")
    THEN "InvalidArgument"
    ELSE IF ~ok THEN "WalkDir" ELSE "nil"

StReturn(err) ==
    /\ stPc' = "done"
    /\ stErr' = err

\* bc.storage, err = storage.New(ctx, backend, opts)
SetStorageNew(ok) ==
    /\ stPc = "new"
    /\ IF ok
       THEN stStorage' = "opened" /\ stPc' = "meta" /\ UNCHANGED stErr
       ELSE StReturn("New") /\ UNCHANGED stStorage
    /\ UNCHANGED <<stFiles, stBackend, notSt>>

\* exist, err := bc.storage.FileExists(ctx, metautil.MetaFile)
SetStorageCheckMeta(ok) ==
    /\ stPc = "meta"
    /\ IF ~ok THEN StReturn("FileExists")
       ELSE IF FileExists(stFiles, MetaFile) THEN StReturn("InvalidArgument")
       ELSE stPc' = "lock" /\ UNCHANGED stErr
    /\ UNCHANGED <<stFiles, stStorage, stBackend, notSt>>

\* CheckBackupStorageIsLocked: s.FileExists(ctx, metautil.LockFile); without
\* the lock file SetStorage sets bc.backend and returns nil.
SetStorageCheckLock(ok) ==
    /\ stPc = "lock"
    /\ IF ~ok THEN StReturn("FileExists") /\ UNCHANGED stBackend
       ELSE IF FileExists(stFiles, LockFile) THEN stPc' = "walk" /\ UNCHANGED <<stErr, stBackend>>
       ELSE StReturn("nil") /\ stBackend' = "backend"
    /\ UNCHANGED <<stFiles, stStorage, notSt>>

\* CheckBackupStorageIsLocked: s.WalkDir; then bc.backend = backend if it
\* returned nil.
SetStorageWalk(ok, early) ==
    /\ stPc = "walk"
    /\ LET err == WalkResult(stFiles, ok, early)
       IN  /\ StReturn(err)
           /\ stBackend' = IF err = "nil" THEN "backend" ELSE stBackend
    /\ UNCHANGED <<stFiles, stStorage, notSt>>

StNext ==
    \/ \E ok \in BOOLEAN : SetStorageNew(ok)
    \/ \E ok \in BOOLEAN : SetStorageCheckMeta(ok)
    \/ \E ok \in BOOLEAN : SetStorageCheckLock(ok)
    \/ \E ok, early \in BOOLEAN : SetStorageWalk(ok, early)

(***************************************************************************)
(* Specifications                                                          *)
(***************************************************************************)

InitClassify ==
    ClStart(RespErrors) /\ GtStart("idle", {0}, {0}) /\ SbStart("idle")
        /\ BrStart("idle", 0, 0) /\ RsStart({<<>>}, {1}) /\ StStart("idle", {{}})
SpecClassify == InitClassify /\ [][ClNext]_vars

InitGetTS ==
    GtStart("enter", Durations, Overrides) /\ ClStart({NoError}) /\ SbStart("idle")
        /\ BrStart("idle", 0, 0) /\ RsStart({<<>>}, {1}) /\ StStart("idle", {{}})
SpecGetTS == InitGetTS /\ [][GtNext]_vars

InitSB ==
    SbStart("open") /\ ClStart({NoError}) /\ GtStart("idle", {0}, {0})
        /\ BrStart("idle", 0, 0) /\ RsStart({<<>>}, {1}) /\ StStart("idle", {{}})
SpecSB == InitSB /\ [][SbNext]_vars

\* One BackupRange call over [0, MaxKey).
Init ==
    BrStart("push", MaxResp, MaxStreamFail) /\ ClStart({NoError})
        /\ GtStart("idle", {0}, {0}) /\ SbStart("idle") /\ RsStart({<<>>}, {1}) /\ StStart("idle", {{}})
Spec == Init /\ [][FgNext]_vars

\* One BackupRange call whose context may be cancelled. The stores send only
\* responses without error, enough of them to fill respCh, and a stream fails
\* only with the error of the cancelled context.
ContextCanceled == [code |-> "Canceled", msg |-> <<"context canceled">>]
NoReply == [ms |-> 0, err |-> FALSE]
CancelNext ==
    \/ Cancel
    \/ \E t \in PushTrees : BackupRangePush(TRUE, t)
    \/ FgCheck
    \/ FgSelectErr
    \/ FgSelectResp
    \/ FgSelectClosed
    \/ DispatchSend
    \/ DispatchWait
    \/ \E w \in BagToSet(workers), found \in BOOLEAN : WorkerRange(w, found, "ok")
    \/ \E w \in BagToSet(workers) : WorkerUpdateMax(w)
    \/ \E w \in BagToSet(workers) : WorkerOpen(w, TRUE, ContextCanceled, "ok")
    \/ \E w \in BagToSet(workers) :
          \E rg \in RespRanges(w.rg) : WorkerRecvResp(w, rg, NoError, NoReply)
    \/ \E w \in BagToSet(workers) : WorkerForward(w)
    \/ \E w \in BagToSet(workers) : WorkerRecvEOF(w)
    \/ \E w \in BagToSet(workers) : WorkerRecvErr(w, ContextCanceled, "ok")
    \/ \E ok \in BOOLEAN : BackupRangeSend(ok)
InitCancel ==
    BrStart("push", ChanCap + 1, 0) /\ ClStart({NoError})
        /\ GtStart("idle", {0}, {0}) /\ SbStart("idle") /\ RsStart({<<>>}, {1}) /\ StStart("idle", {{}})
SpecCancel == InitCancel /\ [][CancelNext]_vars

\* One BackupRange call against stores whose every backup stream opens and
\* ends with io.EOF before any response. The Go scheduler runs a goroutine
\* that can run, and a select with several ready cases picks each with the
\* same probability, so that the case of errCh, ready again and again, is
\* taken in the end.
EofNext ==
    \/ \E ok \in BOOLEAN, t \in PushTrees : BackupRangePush(ok, t)
    \/ FgCheck
    \/ FgSelectErr
    \/ FgSelectClosed
    \/ DispatchSend
    \/ DispatchWait
    \/ \E w \in BagToSet(workers), found \in BOOLEAN : WorkerRange(w, found, "ok")
    \/ \E w \in BagToSet(workers) : WorkerUpdateMax(w)
    \/ \E w \in BagToSet(workers) : WorkerOpen(w, TRUE, ContextCanceled, "ok")
    \/ \E w \in BagToSet(workers) : WorkerRecvEOF(w)
    \/ \E ok \in BOOLEAN : BackupRangeSend(ok)
InitEof ==
    BrStart("push", 0, 0) /\ ClStart({NoError})
        /\ GtStart("idle", {0}, {0}) /\ SbStart("idle") /\ RsStart({<<>>}, {1}) /\ StStart("idle", {{}})
FairSpec ==
    InitEof /\ [][EofNext]_vars /\ WF_vars(EofNext) /\ SF_vars(FgSelectErr)

\* One BackupRange call against a PD that answers GetRegion in any way and
\* stores whose every backup stream opens and ends with io.EOF before any
\* response; findRegionLeader runs turn by turn.
LeaderNext ==
    \/ \E ok \in BOOLEAN, t \in PushTrees : BackupRangePush(ok, t)
    \/ FgCheck
    \/ FgSelectErr
    \/ FgSelectClosed
    \/ DispatchSend
    \/ DispatchWait
    \/ \E w \in BagToSet(workers) : WorkerTake(w)
    \/ \E w \in BagToSet(workers), reply \in PDReplies : WorkerGetRegion(w, reply)
    \/ \E w \in BagToSet(workers) : WorkerUpdateMax(w)
    \/ \E w \in BagToSet(workers) : WorkerOpen(w, TRUE, ContextCanceled, "ok")
    \/ \E w \in BagToSet(workers) : WorkerRecvEOF(w)
    \/ \E ok \in BOOLEAN : BackupRangeSend(ok)
InitLeader ==
    BrStart("push", 0, 0) /\ ClStart({NoError})
        /\ GtStart("idle", {0}, {0}) /\ SbStart("idle") /\ RsStart({<<>>}, {1}) /\ StStart("idle", {{}})
SpecLeader == InitLeader /\ [][LeaderNext]_vars

\* One SetStorage call.
InitStorage ==
    StStart("new", SUBSET Paths) /\ ClStart({NoError}) /\ GtStart("idle", {0}, {0})
        /\ SbStart("idle") /\ BrStart("idle", 0, 0) /\ RsStart({<<>>}, {1})
SpecStorage == InitStorage /\ [][StNext]_vars

\* One BackupRanges call.
InitRanges ==
    RsStart(RangeLists, 1..MaxConcurrency) /\ StStart("idle", {{}}) /\ ClStart({NoError})
        /\ GtStart("idle", {0}, {0}) /\ SbStart("idle") /\ BrStart("idle", 0, 0)
SpecRanges == InitRanges /\ [][RsNext]_vars

(***************************************************************************)
(* Claims                                                                  *)
(***************************************************************************)

Holes == Gaps(tree, 0, MaxKey)

\* C1: whenever fineGrainedBackup returns nil, and whenever BackupRange
\* returns nil, the range tree has no gap in the input range:
\* GetIncompleteRange(startKey, endKey) is empty.
C1_NoGapAfterSuccess ==
    /\ fgPc = "returned" /\ fgErr = "nil" => Holes = {}
    /\ brPc = "done" /\ brErr = "nil" => Holes = {} /\ fgErr = "nil"

\* BackupRange returned nil after a fine-grained phase that merged a response
\* and slept a backoff.
C1_Witness ==
    /\ brPc = "done" /\ brErr = "nil"
    /\ respLeft < MaxResp
    /\ totalSleep > 0

\* Positions i < j of the Send log.
RsPairs == {p \in (1..Len(rsSent)) \X (1..Len(rsSent)) : p[1] < p[2]}

FatalErrors == {"KVClusterIDMismatch", "KVUnknown", "ResolveLocks"}
FatalPending ==
    fgPc = "select" /\ \E i \in 1..Len(errCh) : errCh[i] \in FatalErrors

\* C3: once a worker has reported a fatal error of the classifier to errCh,
\* the collector stays in this iteration until it returns an error: it does
\* not start another iteration and does not return nil.
C3_FatalErrorSurfaces ==
    [][FatalPending =>
          \/ fgPc' = "select" /\ FatalPending'
          \/ fgPc' = "returned" /\ fgErr' # "nil"]_vars

\* C4: when gaps remain and every stream ends with io.EOF at once,
\* fineGrainedBackup returns: nil, ErrBackupNoLeader or the error of the
\* used-up backoff budget.
C4_EofOnlyTerminates ==
    (fgPc = "check" /\ Holes # {})
        ~> (fgPc = "returned" /\ fgErr \in {"nil", "BackupNoLeader", "BackoffTimeout"})

\* fineGrainedBackup gave up on a gap after the whole backoff budget.
C4_Witness ==
    /\ fgPc = "returned" /\ fgErr = "BackoffTimeout"
    /\ Holes # {}
    /\ totalSleep >= backupFineGrainedMaxBackoff

\* A worker stopped at respCh <- response with the buffer full.
BlockedOnRespCh(w) == w.pc = "forward" /\ Len(respCh) = ChanCap

\* C5: once the context is cancelled and fineGrainedBackup has returned, no
\* worker is blocked on its send to respCh. (Only the collector receives from
\* respCh, so a worker blocked then is blocked forever.)
C5_NoTaskBlockedForever ==
    ctxCancelled /\ fgPc = "returned"
        => \A w \in BagToSet(workers) : ~BlockedOnRespCh(w)

\* Positions of sbLog holding an event of the given name.
SbEvents(name) == {i \in 1..Len(sbLog) : sbLog[i].ev = name}
SbOkResets == {i \in SbEvents("reset") : sbLog[i].ok}

\* The predicate of the specification: Unavailable, or Canceled with the
\* message of a closing connection.
SpecRetryable(err) ==
    \/ err.code = "Unavailable"
    \/ err.code = "Canceled" /\ Contains(err.msg, gRPCCancel)

SbRetryableFailures == {i \in SbEvents("error") : SpecRetryable(sbLog[i].err)}

\* C6: one SendBackup call opens the stream at most 5 times; every retryable
\* failure is followed at once by a 3000 ms sleep and one reset_client call;
\* every open is made on the client of the latest reset; a failing reset ends
\* the call with the reset error and nothing after it but the stream's close;
\* the number of opens of a finished call is 1 plus the number of successful
\* resets, capped at 5.
C6_SendBackupRetry ==
    /\ Cardinality(SbEvents("open")) <= 5
    /\ \A i \in SbRetryableFailures :
          /\ i + 2 <= Len(sbLog)
          /\ sbLog[i + 1] = [ev |-> "sleep", ms |-> 3000]
          /\ sbLog[i + 2].ev = "reset"
    /\ Cardinality(SbEvents("reset")) = Cardinality(SbRetryableFailures)
    /\ Cardinality(SbEvents("sleep")) = Cardinality(SbRetryableFailures)
    /\ \A j \in SbEvents("open") :
          /\ sbLog[j].client = Cardinality({i \in SbOkResets : i < j})
          /\ Cardinality({i \in SbEvents("reset") : i < j})
               = Cardinality({k \in SbEvents("open") : k < j})
    /\ \A i \in SbEvents("reset") \ SbOkResets :
          /\ sbPc = "done" /\ sbResult = "ResetFailed"
          /\ \A k \in (i + 1)..Len(sbLog) : sbLog[k].ev = "close"
    /\ sbPc = "done" =>
          Cardinality(SbEvents("open")) =
            (IF 1 + Cardinality(SbOkResets) < 5 THEN 1 + Cardinality(SbOkResets) ELSE 5)

\* A call that used all its attempts: 5 opens, each after a reset of the
\* client but the first, and a 5th retryable failure.
C6_Witness ==
    /\ sbPc = "done" /\ sbResult = "nil"
    /\ Cardinality(SbEvents("open")) = 5
    /\ Cardinality(SbOkResets) = 5
    /\ Cardinality(SbEvents("respFn")) = 2

\* C7: a stream error is followed by the sleep and the reset iff it is
\* Unavailable, or Canceled with the closing-connection message; after any
\* other error the call is over with FailedToConnect and did nothing more
\* than close the stream.
C7_RetryableIff ==
    \A i \in SbEvents("error") :
        IF SpecRetryable(sbLog[i].err)
        THEN i < Len(sbLog) /\ sbLog[i + 1].ev = "sleep"
        ELSE /\ sbPc = "done" /\ sbResult = "FailedToConnect"
             /\ \A k \in (i + 1)..Len(sbLog) : sbLog[k].ev = "close"

\* A user cancellation met on the second attempt, while receiving.
C7_Witness ==
    /\ sbResult = "FailedToConnect"
    /\ Cardinality(SbEvents("open")) = 2
    /\ sbLog[Len(sbLog)] = Ev("close")
    /\ sbLog[Len(sbLog) - 1] =
         [ev |-> "error", err |-> [code |-> "Canceled", msg |-> <<"context canceled">>]]

\* The resolver's outcome as OnBackupResponse reads it.
ResolveOutcome(reply) ==
    IF reply.err THEN <<"err", 0>> ELSE <<"ok", IF reply.ms > 0 THEN reply.ms ELSE 0>>

\* C8: every decision of OnBackupResponse is the one of the classifier table,
\* and a response is kept iff its Error is None.
C8_ClassifierTable ==
    \A i \in 1..Len(clDecisions) :
        LET d == clDecisions[i]
            r == clReplies[i]
            e == clResp
        IN  /\ d.kept <=> e.detail = "none"
            /\ e.detail = "none" => d = Decision(TRUE, 0, "nil")
            /\ e.detail = "KvError" /\ e.locked =>
                  IF r.err THEN ~d.kept /\ d.err = "ResolveLocks"
                  ELSE d = Decision(FALSE, IF r.ms > 0 THEN r.ms ELSE 0, "nil")
            /\ e.detail = "KvError" /\ ~e.locked => ~d.kept /\ d.err = "KVUnknown"
            /\ e.detail = "RegionError" =>
                  IF \E f \in e.fields : f \in
                        {"EpochNotMatch", "NotLeader", "RegionNotFound", "ServerIsBusy",
                         "StaleCommand", "StoreNotMatch", "ReadIndexNotReady",
                         "ProposalInMergingMode"}
                  THEN d = Decision(FALSE, 1000, "nil")
                  ELSE ~d.kept /\ d.err = "KVUnknown"
            /\ e.detail = "ClusterIdError" => ~d.kept /\ d.err = "KVClusterIDMismatch"
            /\ e.detail = "other" =>
                  IF MessageIsRetryableStorageError(e.msg)
                  THEN d = Decision(FALSE, 3000, "nil")
                  ELSE ~d.kept /\ d.err = "KVUnknown"

\* A region error whose only field is the last of the list, classified.
C8_Witness ==
    /\ Len(clDecisions) >= 1
    /\ clResp = [detail |-> "RegionError", fields |-> {"ProposalInMergingMode"}]
    /\ clDecisions[1].backoffMs = 1000

\* C9 as stated: two classifications of one response give one decision.
C9_SameDecisionTwice ==
    Len(clDecisions) = 2 => clDecisions[1] = clDecisions[2]

\* C9 amended: for every error but KvError.Locked the two decisions are equal
\* whatever the lock resolver would answer, and the resolver is not called;
\* for KvError.Locked the resolver is called once per classification and the
\* two decisions are equal exactly when its two outcomes are.
C9_SameDecisionUnlessLocked ==
    Len(clDecisions) = 2 =>
        IF clResp.detail = "KvError" /\ clResp.locked
        THEN /\ clResolves = 2
             /\ (clDecisions[1] = clDecisions[2])
                   <=> (ResolveOutcome(clReplies[1]) = ResolveOutcome(clReplies[2]))
        ELSE clResolves = 0 /\ clDecisions[1] = clDecisions[2]

\* An unlocked KvError classified twice while the resolver's answers differ.
C9_Witness ==
    /\ Len(clDecisions) = 2
    /\ clResp = [detail |-> "KvError", locked |-> FALSE]
    /\ clReplies[1].err # clReplies[2].err

\* C10 as stated: a negative duration always ends in InvalidArgument, with at
\* most one PD GetTS call.
C10_NegativeAlwaysInvalid ==
    gtPc = "done" /\ gtDuration < 0 => gtErr = "InvalidArgument" /\ gtPdCalls <= 1

\* C10 amended: with duration < 0 and override 0, GetTS returns InvalidArgument
\* as soon as PD has answered, without the GC check, and fails with PD's
\* error if PD never answers; PD's GetTS is not called again once it has
\* answered.  With a non-zero override PD's GetTS is not called and the
\* duration is not looked at.
C10_NegativeInvalidAfterFetch ==
    /\ [](gtDuration < 0 /\ gtOverride = 0 =>
            /\ gtFetched # <<>> =>
                  gtPc = "done" /\ gtErr = "InvalidArgument" /\ gtGcChecks = 0
            /\ gtPc = "done" => gtErr \in {"InvalidArgument", "PD"}
            /\ gtErr = "PD" => gtFetched = <<>> /\ gtPdCalls = MaxPDAttempts)
    /\ [](gtOverride # 0 => gtPdCalls = 0 /\ gtErr # "InvalidArgument")
    /\ [][gtFetched # <<>> => gtPdCalls' = gtPdCalls]_vars

\* A negative duration refused after PD answered at its second attempt.
C10_Witness ==
    /\ gtDuration = -1 /\ gtOverride = 0
    /\ gtPdCalls = 2 /\ gtFetched # <<>>
    /\ gtErr = "InvalidArgument"

\* GetTS was called with a positive duration and no override, and PD answered.
GtRewinding == gtDuration > 0 /\ gtOverride = 0 /\ gtFetched # <<>>
\* The rewound time in ns since the epoch.
GtAgoNs == gtFetched[1] * NsPerMs - gtDuration

\* C11 as stated: for a duration d > 0 and no override, the ts returned has the
\* physical component of PD's ts minus d and PD's logical component.
C11_RewindsByDuration ==
    GtRewinding /\ gtPc = "done" /\ gtErr = "nil" =>
        /\ ExtractPhysical(gtBackupTS) * NsPerMs = GtAgoNs
        /\ gtBackupTS % LogicalSpan = gtFetched[2]

\* C11 amended: the physical component returned is PD's minus d only for a d
\* of whole milliseconds; in general it is the rewound time in ms rounded
\* toward zero (down for a time after the epoch, up to 0 for a time less than
\* 1 ms before it), with PD's logical component. GetTS returns
\* InvalidArgument, without a GC check, exactly when the rewound time is 1 ms
\* or more before the epoch.
C11_RewindsRoundedTowardZero ==
    GtRewinding =>
        /\ gtErr = "InvalidArgument" <=> GtAgoNs <= -NsPerMs
        /\ gtErr = "InvalidArgument" => gtPc = "done" /\ gtGcChecks = 0
        /\ gtPc = "done" => gtErr \in {"nil", "GC", "InvalidArgument"}
        /\ gtPc = "done" /\ gtErr = "nil" =>
              LET phys == ExtractPhysical(gtBackupTS)
              IN  /\ gtBackupTS % LogicalSpan = gtFetched[2]
                  /\ GtAgoNs >= 0 => phys * NsPerMs <= GtAgoNs /\ GtAgoNs < (phys + 1) * NsPerMs
                  /\ GtAgoNs < 0 => phys = 0
                  /\ gtDuration % NsPerMs = 0 => phys * NsPerMs = GtAgoNs

\* A duration of 2 ms and 1 ns took 3 ms off PD's physical component 5.
C11_Witness ==
    /\ gtPc = "done" /\ gtErr = "nil" /\ gtOverride = 0
    /\ gtDuration = 2 * NsPerMs + 1
    /\ gtFetched # <<>> /\ gtFetched[1] = 5
    /\ ExtractPhysical(gtBackupTS) = 2

\* The errors of the external storage's own calls.
StorageErrors == {"New", "FileExists", "WalkDir"}
\* The refusal of the specification.
StRefused ==
    \/ MetaFile \in stFiles
    \/ LockFile \in stFiles /\ \E f \in stFiles : f[Len(f)] = ".sst"

\* C12: when no call of the external storage fails, SetStorage returns
\* InvalidArgument iff backupmeta exists, or the lock file exists together with
\* a path ending in .sst; else it returns nil and has set bc.backend, which
\* it sets in no other case.
C12_SetStorageRefusal ==
    /\ stPc = "done" /\ stErr \notin StorageErrors =>
          /\ stErr = "InvalidArgument" <=> StRefused
          /\ stErr = "nil" <=> ~StRefused
    /\ stBackend = "backend" <=> stErr = "nil"

\* The lock file alone, next to a path holding .sst in the middle: accepted
\* after the walk.
C12_Witness ==
    /\ stPc = "done" /\ stErr = "nil" /\ stBackend = "backend"
    /\ LockFile \in stFiles
    /\ <<"a", ".sst", ".tmp">> \in stFiles

\* The errors BackupRange returns before its manifest Sends.
BrEarlyErrors == {"PushDown", "BackupNoLeader", "ConnectStore", "ResetFailed",
                  "BackoffTimeout", "Canceled", "panic"} \cup FatalErrors

\* C13 as stated: progressCallBack(RangeUnit) is called once by a BackupRange
\* that returns nil and never by one that returns an error;
\* progressCallBack(RegionUnit) is called once per rangeTree.Put.
C13_RangeUnitOnlyOnSuccess ==
    /\ brPc = "done" => rangeUnits = (IF brErr = "nil" THEN 1 ELSE 0)
    /\ regionUnits = puts

\* C13 amended: progressCallBack(RangeUnit) is called once when
\* fineGrainedBackup has returned nil, before the manifest Sends: once by a
\* BackupRange that returns nil or the error of a Send, never by one that
\* returns the error of the push-down or of fineGrainedBackup;
\* progressCallBack(RegionUnit) is called once per rangeTree.Put.
C13_RangeUnitAfterFineGrained ==
    /\ rangeUnits = (IF fgErr = "nil" THEN 1 ELSE 0)
    /\ brPc = "done" /\ brErr \in {"nil", "Send"} => rangeUnits = 1
    /\ brPc = "done" /\ brErr \notin {"nil", "Send"} => rangeUnits = 0 /\ brErr \in BrEarlyErrors
    /\ brPc = "emit" => rangeUnits = 1
    /\ regionUnits = puts

\* BackupRange returned the error of a Send after two Puts and the call of
\* progressCallBack(RangeUnit).
C13_Witness ==
    /\ brPc = "done" /\ brErr = "Send"
    /\ rangeUnits = 1
    /\ regionUnits = 2 /\ puts = 2

\* The errors of GetBackupClient and of SendBackup other than
\* ErrFailedToConnect.
HandleErrors == {"ConnectStore", "ResetFailed"} \cup FatalErrors

\* C14: handleFineGrained never returns ErrFailedToConnect: when
\* GetBackupClient or SendBackup fails with it, handleFineGrained returns
\* (20000, nil); it returns any other error of theirs with backoff 0, and the
\* worker never sends ErrFailedToConnect to errCh.
C14_FailedToConnectIsBackoff ==
    /\ hfLast.err # "FailedToConnect"
    /\ hfLast.cause = "FailedToConnect" => hfLast.ms = 20000 /\ hfLast.err = "nil"
    /\ hfLast.cause \in HandleErrors => hfLast.ms = 0 /\ hfLast.err = hfLast.cause
    /\ \A i \in 1..Len(errCh) : errCh[i] # "FailedToConnect"

\* handleFineGrained has just returned (20000, nil) for a failed connection,
\* after another call returned the error of a failed reset.
C14_Witness ==
    /\ hfLast = Returned("FailedToConnect", {}, 20000, "nil")
    /\ UpdatingWorker(20000) \in BagToSet(workers)
    /\ errCh = <<"ResetFailed">>

LargestBackoff == 20000

C16_ExhaustedReturnsNil ==
    /\ (/\ Cardinality(SbRetryableFailures) = backupRetryTimes
        /\ SbOkResets = SbEvents("reset")
        /\ Len(sbLog) > 0 /\ sbLog[Len(sbLog)].ev \in {"reset", "close"})
          => sbPc = "done" /\ sbResult = "nil" /\ SbEvents("eof") = {}
    /\ sbPc = "done" /\ sbResult = "nil" /\ SbEvents("eof") = {}
          => Cardinality(SbRetryableFailures) = backupRetryTimes

\* All 5 attempts failed, the last one while receiving, after a response.
C16_Witness ==
    /\ sbPc = "done" /\ sbResult = "nil"
    /\ SbEvents("eof") = {}
    /\ Cardinality(SbEvents("open")) = backupRetryTimes
    /\ sbRecvd = 1
    /\ sbLog[Len(sbLog)] = Ev("close")

\* The responses handed to respFn, in the order of the calls.
SbHanded == [k \in 1..Cardinality(SbEvents("respFn")) |->
               sbLog[CHOOSE i \in SbEvents("respFn") :
                        Cardinality({j \in SbEvents("respFn") : j <= i}) = k].resp]

\* C17: once bcli.Recv has returned io.EOF the call is over with nil and has
\* done nothing since but close the stream: no open, no reset, no respFn;
\* and the responses handed to respFn are the responses received, each once,
\* in the order of arrival.
C17_EofEndsCall ==
    /\ \A i \in SbEvents("eof") :
          /\ sbPc = "done" /\ sbResult = "nil"
          /\ Len(sbLog) = i + 1 /\ sbLog[i + 1] = Ev("close")
    /\ SbHanded = [k \in 1..sbRecvd |-> k]

\* io.EOF on the second stream, after a response on each.
C17_Witness ==
    /\ sbPc = "done" /\ sbResult = "nil"
    /\ SbEvents("eof") # {}
    /\ Cardinality(SbEvents("open")) = 2
    /\ sbRecvd = 2
    /\ \E i \in SbEvents("respFn") : \E j \in SbEvents("open") : i < j

SetMax(S) == CHOOSE x \in S : \A y \in S : y <= x

\* C18 as stated: after a SendBackup without error handleFineGrained returns
\* 10000 ms iff its callback was never invoked, and else the largest backoff
\* OnBackupResponse returned to the callback.
C18_DebounceIffNoResponse ==
    hfLast.cause = "SendBackupNil" =>
        /\ hfLast.ms = 10000 <=> hfLast.seen = {}
        /\ hfLast.seen # {} => hfLast.ms = SetMax(hfLast.seen)

\* C18 amended: handleFineGrained returns 10000 ms if its callback was never
\* invoked, and else the largest backoff OnBackupResponse returned to the
\* callback, which is 10000 ms too when a lock expires in 10000 ms.
C18_DebounceIfNoResponse ==
    hfLast.cause = "SendBackupNil" =>
        /\ hfLast.err = "nil"
        /\ hfLast.seen = {} => hfLast.ms = 10000
        /\ hfLast.seen # {} => hfLast.ms = SetMax(hfLast.seen)
        /\ hfLast.ms = 10000 => hfLast.seen = {} \/ 10000 \in hfLast.seen

\* handleFineGrained has just returned 10000 ms after a kept response and a
\* response locked for 10000 ms.
C18_Witness == hfLast = Returned("SendBackupNil", {0, 10000}, 10000, "nil")

\* The responses on their way to the collector: those in respCh and those a
\* worker's callback is about to send there.
Forwarded ==
    {respCh[i] : i \in 1..Len(respCh)}
        \cup {w.held : w \in {x \in BagToSet(workers) : x.pc = "forward"}}

\* C19: every response a worker forwards to respCh has Error == nil, and
\* fineGrainedBackup never reaches its "unexpected backup error" panic.
C19_PanicUnreachable ==
    /\ \A r \in Forwarded : r.error = NoError
    /\ fgErr # "panic"
    /\ brErr # "panic"

\* A worker has forwarded a response to respCh in a handleFineGrained call in
\* which the classifier also dropped a response locked for 10000 ms.
C19_Witness ==
    /\ respCh # <<>>
    /\ \E w \in BagToSet(workers) : w.pc = "recv" /\ w.hasProgress /\ w.seen = {0, 10000}

\* Once respCh is closed the 4 workers have returned and max.ms is the
\* largest backoff the handleFineGrained calls of the iteration returned.
MaxSettled ==
    respClosed => /\ workers = Bag(ExitedWorker, NumWorkers)
                  /\ maxMs = hfMax

\* The collector leaves its select loop over the closed respCh and reads
\* max.ms.
ReadsMax ==
    /\ fgPc = "select" /\ respClosed /\ respCh = <<>>
    /\ errCh' = errCh
    /\ fgPc' # "select"

\* The read is followed by a request to sleep max.ms, granted or refused by
\* the backoffer, iff max.ms is not 0.
SleepsIffNonZero ==
    IF maxMs = 0
    THEN fgPc' = "check" /\ totalSleep' = totalSleep
    ELSE \/ /\ totalSleep < backupFineGrainedMaxBackoff
            /\ fgPc' = "check" /\ totalSleep' = totalSleep + maxMs
         \/ /\ totalSleep >= backupFineGrainedMaxBackoff
            /\ fgErr' = "BackoffTimeout" /\ totalSleep' = totalSleep

\* C20: when the collector reads max.ms after respCh is closed, the 4 workers
\* have finished and the value is the largest backoff returned by the
\* handleFineGrained calls of the iteration, none lost and none applied after
\* the read; the sleep is requested iff the value is not 0.
C20_MaxReadAfterWorkers ==
    /\ []MaxSettled
    /\ [][ReadsMax => MaxSettled /\ maxMs' = maxMs /\ SleepsIffNonZero]_vars

\* The second iteration has read 20000 ms, the larger of the backoffs its
\* workers returned, after the first iteration had slept 10000 ms.
C20_Witness ==
    /\ fgPc = "check" /\ respClosed
    /\ maxMs = 20000 /\ hfMax = 20000
    /\ totalSleep = 30000

RECURSIVE StreamsOf(_)
\* The streams the workers of the set ws have open, each counted as often as
\* it is in the bag.
StreamsOf(ws) ==
    IF ws = {} THEN 0
    ELSE LET w == CHOOSE x \in ws : TRUE
         IN  w.streams * CopiesIn(w, workers) + StreamsOf(ws \ {w})
OpenStreams == StreamsOf(BagToSet(workers))

\* fineGrainedBackup starts the workers of an iteration.
Spawns == fgPc = "check" /\ fgPc' = "select"

\* C21: a fine-grained phase has at most 4 workers, each with at most one
\* open stream and none while it is outside the receive loop, as it is when
\* SendBackup opens the next one; at most 4 streams are open; the workers of
\* an iteration have all returned when the next iteration starts its own.
C21_OneStreamPerWorker ==
    /\ [](/\ BagCardinality(workers) <= NumWorkers
          /\ \A w \in BagToSet(workers) :
                /\ w.streams <= 1
                /\ w.pc \in {"range", "open", "update", "exit"} => w.streams = 0
                /\ w.pc \in {"recv", "forward"} => w.streams = 1
          /\ OpenStreams <= NumWorkers)
    /\ [][Spawns => /\ \A w \in BagToSet(workers) : w.pc = "exit" /\ w.streams = 0
                    /\ BagCardinality(workers') = NumWorkers]_vars

\* Two workers have a stream open, one of them on its second attempt, in the
\* second iteration of the phase.
C21_Witness ==
    /\ totalSleep > 0
    /\ \E w1, w2 \in BagToSet(workers) :
          /\ w1.pc = "recv" /\ w1.retry = 1 /\ w1.streams = 1
          /\ w2.pc = "recv" /\ w2.retry = 0 /\ w2.streams = 1
    /\ OpenStreams = 2

\* A step of the collector, the goroutine that runs fineGrainedBackup: the
\* other goroutines stay where they are, but for being started by it.
CollectorStep ==
    /\ fgPc \in {"check", "select"}
    /\ Spawns \/ (workers' = workers /\ dispatcher' = dispatcher)

\* rangeTree.Put(resp.StartKey, resp.EndKey, resp.Files) for the response
\* taken from respCh.
CollectorPut ==
    /\ CollectorStep /\ fgPc = "select"
    /\ respCh # <<>> /\ respCh' = Tail(respCh)
    /\ tree' = Put(tree, Rg(Head(respCh).s, Head(respCh).e))
    /\ puts' = puts + 1

\* C22: in the fine-grained phase the range tree is written only by Put in a
\* step of the collector, one Put for one response it took from respCh, and
\* read by GetIncompleteRange only in a step of the collector at the loop
\* head; no step of a worker or of the dispatcher touches it, so that no two
\* tree operations overlap.
C22_TreeOnlyByCollector ==
    [][/\ fgPc # "idle" /\ (tree' # tree \/ puts' # puts) => CollectorPut
       /\ incomplete' # incomplete =>
             CollectorStep /\ fgPc = "check"
                 /\ incomplete' = GetIncompleteRange(tree, 0, MaxKey) /\ tree' = tree
       /\ fgPc # "idle" /\ ~CollectorStep => tree' = tree /\ puts' = puts]_vars

\* The collector has put a response into the tree while a worker has its
\* stream open and another response waits in respCh.
C22_Witness ==
    /\ fgPc = "select" /\ puts > 0 /\ tree # {}
    /\ respCh # <<>>
    /\ \E w \in BagToSet(workers) : w.pc \in {"recv", "forward"}

\* ErrBackupNoLeader waits in errCh.
NoLeaderPending == \E k \in 1..Len(errCh) : errCh[k] = "BackupNoLeader"

RECURSIVE CopiesOf(_)
\* How many workers of the set ws the bag holds.
CopiesOf(ws) ==
    IF ws = {} THEN 0
    ELSE LET w == CHOOSE x \in ws : TRUE
         IN  CopiesIn(w, workers) + CopiesOf(ws \ {w})

\* The workers whose findRegionLeader failed FindLeaderAttempts times.
NoLeaderWorkers == CopiesOf({w \in BagToSet(workers) : w.fails = FindLeaderAttempts})

\* findRegionLeader calls GetRegion at most 5 times for a hole, returns the
\* leader of the first reply with a region that has one, without another
\* call, and returns ErrBackupNoLeader iff 5 calls failed; handleFineGrained
\* returns that error with backoff 0 and its worker sends it to errCh.
LeaderLookup ==
    /\ \A w \in BagToSet(workers) :
          /\ w.calls <= FindLeaderAttempts
          /\ w.pc = "leader" =>
                w.i < FindLeaderAttempts /\ w.calls = w.i /\ w.fails = w.i /\ w.leader = 0
          /\ w.pc \in {"open", "recv", "forward"} =>
                w.leader # 0 /\ w.calls = w.fails + 1
          /\ w.fails = FindLeaderAttempts => w.pc = "exit" /\ w.leader = 0
          /\ w.pc = "exit" /\ w.calls > 0 => w.fails = FindLeaderAttempts
    /\ hfLast.cause = "BackupNoLeader" =>
          /\ hfLast.ms = 0 /\ hfLast.err = "BackupNoLeader"
          /\ errCh # <<>> /\ errCh[Len(errCh)] = "BackupNoLeader"
    /\ NoLeaderWorkers = Len(errCh) + (IF fgErr = "BackupNoLeader" THEN 1 ELSE 0)

Unproductive ==
    /\ errCh = <<>>
    /\ GetIncompleteRange(tree, 0, MaxKey) = incomplete

\* C24 as stated: every iteration that ends without error and with the holes
\* it started with asks for a backoff above 0.
C24_UnproductiveBacksOff ==
    [][ReadsMax /\ Unproductive => maxMs > 0]_vars

\* C24 amended: handleFineGrained returns backoff 0 without error only after
\* at least one response, all of them with backoff 0 from OnBackupResponse;
\* the iteration that ends without error asks for the largest backoff its
\* calls returned, and asks for one iff that is above 0.
C24_ZeroBackoffOnlyAfterResponses ==
    /\ [](hfLast.cause # "none" /\ hfLast.err = "nil" =>
             /\ hfLast.ms = 0 => hfLast.seen = {0}
             /\ hfLast.seen = {0} /\ hfLast.cause = "SendBackupNil" => hfLast.ms = 0
             /\ hfLast.seen = {} => hfLast.ms >= 10000)
    /\ [][ReadsMax /\ errCh = <<>> =>
             /\ maxMs = hfMax
             /\ maxMs = 0 <=> (totalSleep' = totalSleep /\ fgPc' = "check")]_vars

\* handleFineGrained has just returned (0, nil) for a hole whose store
\* answered with a lock that ResolveLocks reported as expired, and nothing
\* else: no response was kept in this phase.
C24_Witness ==
    /\ hfLast = Returned("SendBackupNil", {0}, 0, "nil")
    /\ puts = 0 /\ respCh = <<>> /\ respLeft = MaxResp
    /\ \A w \in BagToSet(workers) : w.pc \in {"range", "exit"}

====
